---------------------------- MODULE Spec2Model ----------------------------
(***************************************************************************)
(* A model of the notebook getting-started-with-snowflake-semantic-view:   *)
(* the semantic view TPCDS_SEMANTIC_VIEW_SM it declares, the statements    *)
(* its cells issue in notebook order, the two queries over the view, the   *)
(* conversion of the second query's result to a dataframe and the two      *)
(* dashboard scripts computed from that dataframe.                         *)
(*                                                                         *)
(* Identifiers are strings; unquoted SQL identifiers are case-folded by    *)
(* Fold before they are compared, as the warehouse does.  The warehouse's  *)
(* sales data is a set of joined sales rows, one per ticket.               *)
(***************************************************************************)
EXTENDS Integers, Sequences, FiniteSets, TLC

(***************************************************************************)
(* Bounds of the model.                                                    *)
(***************************************************************************)
\* Sales rows (tickets) whose brand, state and filter fields vary.
MaxTickets == 2
\* Further brands, each with one matching sale in TX, that may be present.
NFiller == 10

(***************************************************************************)
(* Identifier case folding: an unquoted identifier is stored and compared  *)
(* in upper case.  The table lists every identifier the notebook writes in *)
(* lower or mixed case; the others are written in upper case already.      *)
(***************************************************************************)
Fold(s) ==
    CASE s = "i_current_price" -> "I_CURRENT_PRICE"
      [] s = "c_customer_sk" -> "C_CUSTOMER_SK"
      [] s = "d_date_sk" -> "D_DATE_SK"
      [] s = "cd_demo_sk" -> "CD_DEMO_SK"
      [] s = "i_item_sk" -> "I_ITEM_SK"
      [] s = "s_store_sk" -> "S_STORE_SK"
      [] s = "ss_cdemo_sk" -> "SS_CDEMO_SK"
      [] s = "ss_customer_sk" -> "SS_CUSTOMER_SK"
      [] s = "ss_item_sk" -> "SS_ITEM_SK"
      [] s = "ss_sold_date_sk" -> "SS_SOLD_DATE_SK"
      [] s = "ss_store_sk" -> "SS_STORE_SK"
      [] s = "item" -> "ITEM"
      [] s = "cost" -> "COST"
      [] s = "Item" -> "ITEM"
      [] s = "Brand" -> "BRAND"
      [] s = "Category" -> "CATEGORY"
      [] s = "Date" -> "DATE"
      [] s = "Year" -> "YEAR"
      [] s = "Month" -> "MONTH"
      [] s = "Store" -> "STORE"
      [] s = "State" -> "STATE"
      [] s = "StoreSales" -> "STORESALES"
      [] s = "TotalSalesQuantity" -> "TOTALSALESQUANTITY"
      [] OTHER -> s

(***************************************************************************)
(* The semantic view definition of cell sql_step4, clause by clause.  A    *)
(* clause is a sequence, in source order.  An expression is the sequence   *)
(* of the column references it mentions; a reference is a sequence of      *)
(* identifier parts, <<column>> or <<table, name>>.                        *)
(***************************************************************************)
T(alias, physical, pk) == [alias |-> alias, physical |-> physical, pk |-> pk]

Tables ==
    << T("CUSTOMER", "CUSTOMER", <<"C_CUSTOMER_SK">>),
       T("DATE", "DATE_DIM", <<"D_DATE_SK">>),
       T("DEMO", "CUSTOMER_DEMOGRAPHICS", <<"CD_DEMO_SK">>),
       T("ITEM", "ITEM", <<"I_ITEM_SK">>),
       T("STORE", "STORE", <<"S_STORE_SK">>),
       T("STORESALES", "STORE_SALES", <<"SS_STORE_SK">>) >>

R(name, tbl, cols, ref, refcols) ==
    [name |-> name, tbl |-> tbl, cols |-> cols, ref |-> ref, refcols |-> refcols]

\* A plausible slip: the relationship to DEMO is left out.
RelationshipsWithoutDemo ==
    << R("SALESTOCUSTOMER", "STORESALES", <<"SS_CUSTOMER_SK">>, "CUSTOMER", <<"C_CUSTOMER_SK">>),
       R("SALESTODATE", "STORESALES", <<"SS_SOLD_DATE_SK">>, "DATE", <<"D_DATE_SK">>),
       R("SALESTOITEM", "STORESALES", <<"SS_ITEM_SK">>, "ITEM", <<"I_ITEM_SK">>),
       R("SALETOSTORE", "STORESALES", <<"SS_STORE_SK">>, "STORE", <<"S_STORE_SK">>) >>

Relationships ==
    << R("SALESTOCUSTOMER", "STORESALES", <<"SS_CUSTOMER_SK">>, "CUSTOMER", <<"C_CUSTOMER_SK">>),
       R("SALESTODATE", "STORESALES", <<"SS_SOLD_DATE_SK">>, "DATE", <<"D_DATE_SK">>),
       R("SALESTODEMO", "STORESALES", <<"SS_CDEMO_SK">>, "DEMO", <<"CD_DEMO_SK">>),
       R("SALESTOITEM", "STORESALES", <<"SS_ITEM_SK">>, "ITEM", <<"I_ITEM_SK">>),
       R("SALETOSTORE", "STORESALES", <<"SS_STORE_SK">>, "STORE", <<"S_STORE_SK">>) >>

\* tbl.name AS column: a fact or dimension over one column of its table.
E(tbl, name, column) ==
    [tbl |-> tbl, name |-> name, agg |-> "", expr |-> << <<column>> >>]

\* A plausible slip: the fact over SS_QUANTITY is left out.
FactsWithoutQuantity ==
    << E("ITEM", "COST", "I_WHOLESALE_COST"),
       E("ITEM", "PRICE", "i_current_price"),
       E("STORE", "TAX_RATE", "S_TAX_PRECENTAGE") >>

Facts ==
    << E("ITEM", "COST", "I_WHOLESALE_COST"),
       E("ITEM", "PRICE", "i_current_price"),
       E("STORE", "TAX_RATE", "S_TAX_PRECENTAGE"),
       E("STORESALES", "SALES_QUANTITY", "SS_QUANTITY") >>

Dimensions ==
    << E("CUSTOMER", "BIRTHYEAR", "C_BIRTH_YEAR"),
       E("CUSTOMER", "COUNTRY", "C_BIRTH_COUNTRY"),
       E("CUSTOMER", "C_CUSTOMER_SK", "c_customer_sk"),
       E("DATE", "DATE", "D_DATE"),
       E("DATE", "D_DATE_SK", "d_date_sk"),
       E("DATE", "MONTH", "D_MOY"),
       E("DATE", "WEEK", "D_WEEK_SEQ"),
       E("DATE", "YEAR", "D_YEAR"),
       E("DEMO", "CD_DEMO_SK", "cd_demo_sk"),
       E("DEMO", "CREDIT_RATING", "CD_CREDIT_RATING"),
       E("DEMO", "MARITAL_STATUS", "CD_MARITAL_STATUS"),
       E("ITEM", "BRAND", "I_BRAND"),
       E("ITEM", "CATEGORY", "I_CATEGORY"),
       E("ITEM", "CLASS", "I_CLASS"),
       E("ITEM", "I_ITEM_SK", "i_item_sk"),
       E("STORE", "MARKET", "S_MARKET_ID"),
       E("STORE", "SQUAREFOOTAGE", "S_FLOOR_SPACE"),
       E("STORE", "STATE", "S_STATE"),
       E("STORE", "STORECOUNTRY", "S_COUNTRY"),
       E("STORE", "S_STORE_SK", "s_store_sk"),
       E("STORESALES", "SS_CDEMO_SK", "ss_cdemo_sk"),
       E("STORESALES", "SS_CUSTOMER_SK", "ss_customer_sk"),
       E("STORESALES", "SS_ITEM_SK", "ss_item_sk"),
       E("STORESALES", "SS_SOLD_DATE_SK", "ss_sold_date_sk"),
       E("STORESALES", "SS_STORE_SK", "ss_store_sk") >>

\* tbl.name AS agg(ref): a metric aggregating one reference.
M(tbl, name, agg, ref) ==
    [tbl |-> tbl, name |-> name, agg |-> agg, expr |-> <<ref>>]

\* A plausible slip: TOTALCOST aggregates a fact name that is not declared.
MetricsUndeclaredFact ==
    << M("STORESALES", "TOTALCOST", "SUM", <<"item", "PRICES">>),
       M("STORESALES", "TOTALSALESPRICE", "SUM", <<"SS_SALES_PRICE">>),
       M("STORESALES", "TOTALSALESQUANTITY", "SUM", <<"SS_QUANTITY">>) >>

Metrics ==
    << M("STORESALES", "TOTALCOST", "SUM", <<"item", "cost">>),
       M("STORESALES", "TOTALSALESPRICE", "SUM", <<"SS_SALES_PRICE">>),
       M("STORESALES", "TOTALSALESQUANTITY", "SUM", <<"SS_QUANTITY">>) >>

FoldAll(ids) == [i \in DOMAIN ids |-> Fold(ids[i])]

\* A clause entry as the catalog stores it: its identifiers case-folded.
StoredEntry(e) ==
    [tbl |-> Fold(e.tbl), name |-> Fold(e.name), agg |-> e.agg,
     expr |-> [i \in DOMAIN e.expr |-> FoldAll(e.expr[i])]]

\* The definition the CREATE OR REPLACE SEMANTIC VIEW statement hands over, as
\* the catalog stores it.
SemanticViewDef ==
    [tables |-> [i \in DOMAIN Tables |->
                    [alias |-> Fold(Tables[i].alias), physical |-> Fold(Tables[i].physical),
                     pk |-> FoldAll(Tables[i].pk)]],
     relationships |-> [i \in DOMAIN Relationships |->
                          [name |-> Fold(Relationships[i].name),
                           tbl |-> Fold(Relationships[i].tbl),
                           cols |-> FoldAll(Relationships[i].cols),
                           ref |-> Fold(Relationships[i].ref),
                           refcols |-> FoldAll(Relationships[i].refcols)]],
     facts |-> [i \in DOMAIN Facts |-> StoredEntry(Facts[i])],
     dimensions |-> [i \in DOMAIN Dimensions |-> StoredEntry(Dimensions[i])],
     metrics |-> [i \in DOMAIN Metrics |-> StoredEntry(Metrics[i])]]

\* A catalog entry with no clauses: the state before any definition.
EmptyDef ==
    [tables |-> <<>>, relationships |-> <<>>, facts |-> <<>>,
     dimensions |-> <<>>, metrics |-> <<>>]

\* The sales fact table's alias.
FactTable == "STORESALES"

(***************************************************************************)
(* Name resolution over a stored definition d, as the warehouse resolves   *)
(* it.  References are case-folded by the caller.                          *)
(***************************************************************************)
Range(s) == {s[i] : i \in DOMAIN s}

\* Every fact, dimension and metric declared, with its clause and position.
Entries(d) ==
    {[kind |-> "FACT", i |-> i, e |-> d.facts[i]] : i \in DOMAIN d.facts}
      \cup {[kind |-> "DIMENSION", i |-> i, e |-> d.dimensions[i]] : i \in DOMAIN d.dimensions}
      \cup {[kind |-> "METRIC", i |-> i, e |-> d.metrics[i]] : i \in DOMAIN d.metrics}

QualifiedName(e) == <<e.tbl, e.name>>

\* The positions of the tables clause that declare the alias.
AliasDecls(d, alias) ==
    {i \in DOMAIN d.tables : d.tables[i].alias = alias}

\* The declared primary key of an alias (the empty key if it is not declared).
PrimaryKey(d, alias) ==
    IF AliasDecls(d, alias) = {} THEN <<>>
    ELSE d.tables[CHOOSE i \in AliasDecls(d, alias) : TRUE].pk

\* The facts or dimensions that a qualified reference <<table, name>> names.
NamedBy(clause, ref) ==
    {e \in Range(clause) : e.tbl = ref[1] /\ e.name = ref[2]}

\* A column, with the table alias it belongs to.
Col(tbl, c) == [tbl |-> tbl, col |-> c]

\* The underlying columns of a reference made by an entry of table tbl: an
\* unqualified reference is a column of tbl; a qualified one is the columns of
\* the fact or dimension it names.
ResolveRef(d, tbl, ref) ==
    IF Len(ref) = 1 THEN {Col(tbl, ref[1])}
    ELSE UNION {{Col(e.tbl, r[Len(r)]) : r \in Range(e.expr)} :
                   e \in NamedBy(d.facts, ref) \cup NamedBy(d.dimensions, ref)}

\* The underlying columns of a declared fact, dimension or metric.
Resolve(d, e) == UNION {ResolveRef(d, e.tbl, r) : r \in Range(e.expr)}

\* The relationship graph: an edge from the referencing to the referenced alias.
Edges(d) == {<<r.tbl, r.ref>> : r \in Range(d.relationships)}

Aliases(d) == {t.alias : t \in Range(d.tables)}

\* The aliases reachable from the set S in at most n joins.
RECURSIVE ReachIn(_, _, _)
ReachIn(d, S, n) ==
    IF n = 0 THEN S
    ELSE ReachIn(d, S \cup {e[2] : e \in {x \in Edges(d) : x[1] \in S}}, n - 1)

\* The aliases reachable from alias a in one or more joins.
JoinReach(d, a) ==
    ReachIn(d, {e[2] : e \in {x \in Edges(d) : x[1] = a}}, Len(d.relationships))

(***************************************************************************)
(* The warehouse's sales data: joined sales rows over the physical columns *)
(* the queries read.  Brands are numbered in the order their names sort.   *)
(***************************************************************************)
SalesRow(t, brand, category, year, month, state, qty) ==
    [ticket |-> t, I_BRAND |-> brand, I_CATEGORY |-> category, D_YEAR |-> year,
     D_MOY |-> month, S_STATE |-> state, SS_QUANTITY |-> qty]

\* The quantity sold on ticket t.
Qty(t) == t

\* The brand of an item whose I_BRAND is NULL, as the sample data has them.
NullBrand == 0

\* What ticket t may be: a December 2002 sale of a book of brand 1 or 2 in TX
\* or CA, or of a book without a brand in TX, or a sale that differs from
\* those in its year, month or category.
RowChoices(t) ==
    {SalesRow(t, b, "Books", 2002, 12, s, Qty(t)) : b \in {1, 2}, s \in {"TX", "CA"}}
      \cup {SalesRow(t, NullBrand, "Books", 2002, 12, "TX", Qty(t)),
            SalesRow(t, 1, "Books", 2003, 12, "TX", Qty(t)),
            SalesRow(t, 1, "Books", 2002, 11, "TX", Qty(t)),
            SalesRow(t, 1, "Music", 2002, 12, "TX", Qty(t))}

\* Brands 3, 4, ... each with one December 2002 book sale in TX.
FillerRows ==
    {SalesRow(MaxTickets + k, 2 + k, "Books", 2002, 12, "TX", k) : k \in 1..NFiller}

\* The contents the first n tickets may have.
RECURSIVE TicketContents(_)
TicketContents(n) ==
    IF n = 0 THEN {{}}
    ELSE {c \cup x : c \in TicketContents(n - 1),
                     x \in {{}} \cup {{r} : r \in RowChoices(n)}}

\* Every contents of the sales data within the bounds, and the same with the
\* further brands present.
SalesContents == TicketContents(MaxTickets)

SalesContentsManyBrands ==
    {c \cup f : c \in TicketContents(MaxTickets), f \in {{}, FillerRows}}

(***************************************************************************)
(* SELECT * FROM SEMANTIC_VIEW(view DIMENSIONS .. METRICS .. WHERE ..)     *)
(* ORDER BY metric DESC [LIMIT n], as the warehouse evaluates it.          *)
(***************************************************************************)
Cond(ref, lit) == [ref |-> ref, lit |-> lit]

\* The LIMIT of the Step 6 query.
Step8Limit == 10

QueryDims ==
    << <<"Item", "Brand">>, <<"Item", "Category">>, <<"Date", "Year">>,
       <<"Date", "Month">>, <<"Store", "State">> >>

QueryMetrics == << <<"StoreSales", "TotalSalesQuantity">> >>

\* A plausible slip: the Step 6 query without its state condition.
Step8QueryNoState ==
    [dims |-> QueryDims, metrics |-> QueryMetrics,
     where |-> << Cond(<<"Date", "Year">>, "2002"), Cond(<<"Date", "Month">>, "12"),
                  Cond(<<"Item", "Category">>, "Books") >>,
     orderBy |-> "TotalSalesQuantity", hasLimit |-> TRUE, limit |-> Step8Limit]

\* Cell sql_step8.
Step8Query ==
    [dims |-> QueryDims, metrics |-> QueryMetrics,
     where |-> << Cond(<<"Date", "Year">>, "2002"), Cond(<<"Date", "Month">>, "12"),
                  Cond(<<"Store", "State">>, "TX"), Cond(<<"Item", "Category">>, "Books") >>,
     orderBy |-> "TotalSalesQuantity", hasLimit |-> TRUE, limit |-> Step8Limit]

\* Cell cell1.
Cell1Query ==
    [dims |-> QueryDims, metrics |-> QueryMetrics,
     where |-> << Cond(<<"Date", "Year">>, "2002"), Cond(<<"Date", "Month">>, "12"),
                  Cond(<<"Item", "Category">>, "Books") >>,
     orderBy |-> "TotalSalesQuantity", hasLimit |-> FALSE, limit |-> 0]

\* The columns holding numbers; a string literal compared with one is cast.
NumericColumns == {"D_YEAR", "D_MOY", "SS_QUANTITY"}

ToNumber(lit) ==
    CASE lit = "2002" -> 2002
      [] lit = "12" -> 12

Coerce(column, lit) == IF column \in NumericColumns THEN ToNumber(lit) ELSE lit

\* The columns a dimension reference of a query resolves to.
DimColumns(d, ref) ==
    UNION {Resolve(d, e) : e \in NamedBy(d.dimensions, FoldAll(ref))}

\* The metrics a metric reference of a query names.
MetricDecls(d, ref) == NamedBy(d.metrics, FoldAll(ref))

\* The query compiles: the view exists and every name resolves to one column.
QueryOk(v, q) ==
    /\ v.exists
    /\ \A i \in DOMAIN q.dims : Cardinality(DimColumns(v.def, q.dims[i])) = 1
    /\ \A i \in DOMAIN q.where : Cardinality(DimColumns(v.def, q.where[i].ref)) = 1
    /\ \A i \in DOMAIN q.metrics :
          /\ Cardinality(MetricDecls(v.def, q.metrics[i])) = 1
          /\ \A m \in MetricDecls(v.def, q.metrics[i]) :
                m.agg = "SUM" /\ Cardinality(Resolve(v.def, m)) = 1
    /\ \E i \in DOMAIN q.metrics : Fold(q.metrics[i][2]) = Fold(q.orderBy)

DimColumn(d, ref) == (CHOOSE c \in DimColumns(d, ref) : TRUE).col

MetricColumn(d, ref) ==
    (CHOOSE c \in Resolve(d, CHOOSE m \in MetricDecls(d, ref) : TRUE) : TRUE).col

\* The WHERE clause on one sales row.
Matches(d, q, row) ==
    \A i \in DOMAIN q.where :
        LET c == DimColumn(d, q.where[i].ref)
        IN  row[c] = Coerce(c, q.where[i].lit)

RECURSIVE SumOf(_, _)
SumOf(rows, column) ==
    IF rows = {} THEN 0
    ELSE LET r == CHOOSE x \in rows : TRUE
         IN  r[column] + SumOf(rows \ {r}, column)

\* The result's column names, dimensions first.
OutColumns(q) ==
    [i \in 1..(Len(q.dims) + Len(q.metrics)) |->
        IF i <= Len(q.dims) THEN Fold(q.dims[i][2])
        ELSE Fold(q.metrics[i - Len(q.dims)][2])]

\* The column of the sales rows behind each column of the result.
SourceColumns(d, q) ==
    [i \in 1..(Len(q.dims) + Len(q.metrics)) |->
        IF i <= Len(q.dims) THEN DimColumn(d, q.dims[i])
        ELSE MetricColumn(d, q.metrics[i - Len(q.dims)])]

\* One result row per group of matching sales rows: the group's dimension
\* values, and its metric summed over the group's rows.
Aggregate(d, q, sales) ==
    LET where == [i \in DOMAIN q.where |->
                     LET c == DimColumn(d, q.where[i].ref)
                     IN  [col |-> c, val |-> Coerce(c, q.where[i].lit)]]
        rows == {r \in sales : \A i \in DOMAIN where : r[where[i].col] = where[i].val}
        names == OutColumns(q)
        src == SourceColumns(d, q)
        nd == Len(q.dims)
        Group(r) == {x \in rows : \A i \in 1..nd : x[src[i]] = r[src[i]]}
        OutRow(r) ==
            [c \in Range(names) |->
                LET i == CHOOSE k \in DOMAIN names : names[k] = c
                IN  IF i <= nd THEN r[src[i]] ELSE SumOf(Group(r), src[i])]
    IN  {OutRow(r) : r \in rows}

\* Every ordering of the rows that is non-increasing in the column: rows that
\* tie come in any order.
RECURSIVE OrderedDesc(_, _)
OrderedDesc(rows, column) ==
    IF rows = {} THEN {<<>>}
    ELSE UNION {{<<m>> \o s : s \in OrderedDesc(rows \ {m}, column)} :
                   m \in {x \in rows : \A y \in rows : y[column] <= x[column]}}

Min(a, b) == IF a <= b THEN a ELSE b

\* The results the query may return.
QueryResults(v, q, sales) ==
    {[columns |-> OutColumns(q),
      rows |-> IF q.hasLimit THEN SubSeq(s, 1, Min(q.limit, Len(s))) ELSE s] :
        s \in OrderedDesc(Aggregate(v.def, q, sales), Fold(q.orderBy))}

(***************************************************************************)
(* cell1.to_pandas(): the result as a pandas DataFrame, the same columns   *)
(* and rows under a 0-based RangeIndex.                                    *)
(***************************************************************************)
ToPandas(res) ==
    [columns |-> res.columns,
     index |-> [i \in 1..Len(res.rows) |-> i - 1],
     data |-> res.rows]

NoResult == [columns |-> <<>>, rows |-> <<>>]

NoFrame == [columns |-> <<>>, index |-> <<>>, data |-> <<>>]

(***************************************************************************)
(* The grouping and the KPIs of py_visualization and py_dashboard.         *)
(***************************************************************************)
\* The order of the state codes as strings.
StateOrd(s) ==
    CASE s = "CA" -> 1
      [] s = "TX" -> 2

\* The order pandas sorts group keys in.
KeyLeq(column, a, b) ==
    IF column = "STATE" THEN StateOrd(a) <= StateOrd(b) ELSE a <= b

\* The keys in ascending order.
RECURSIVE SortKeys(_, _)
SortKeys(keys, column) ==
    IF keys = {} THEN <<>>
    ELSE LET k == CHOOSE x \in keys : \A y \in keys : KeyLeq(column, x, y)
         IN  <<k>> \o SortKeys(keys \ {k}, column)

\* The sum of a column over the rows of a sequence at the given positions.
RECURSIVE SumAt(_, _, _)
SumAt(data, column, idx) ==
    IF idx = {} THEN 0
    ELSE LET i == CHOOSE x \in idx : TRUE
         IN  data[i][column] + SumAt(data, column, idx \ {i})

\* The value is NULL in the warehouse, None in the data frame.  The sales
\* data holds no state that is NULL.
IsNull(column, v) == column = "BRAND" /\ v = NullBrand

\* df.groupby(key)['TOTALSALESQUANTITY'].sum().reset_index().set_index(key):
\* one row per distinct key that is not null (groupby's dropna is True by
\* default), in key order, with the sum of the key's rows.
GroupBySum(df, key) ==
    LET keys == SortKeys({v \in {df.data[i][key] : i \in DOMAIN df.data} :
                             ~IsNull(key, v)}, key)
    IN  [j \in DOMAIN keys |->
            [key |-> keys[j],
             TOTALSALESQUANTITY |->
                SumAt(df.data, "TOTALSALESQUANTITY",
                      {i \in DOMAIN df.data : df.data[i][key] = keys[j]})]]

\* A float: num / den, and NaN when den = 0.
Float(num, den) == [num |-> num, den |-> den]

NaN == Float(0, 0)

\* df['TOTALSALESQUANTITY'].sum()
TotalSales(df) == SumAt(df.data, "TOTALSALESQUANTITY", DOMAIN df.data)

\* df['TOTALSALESQUANTITY'].mean(): the mean over the rows of df.
MeanSales(df) == Float(TotalSales(df), Len(df.data))

\* The first position of grouped_data that holds the largest sum.
ArgMax(grouped) ==
    CHOOSE i \in DOMAIN grouped :
        /\ \A j \in DOMAIN grouped :
              grouped[j].TOTALSALESQUANTITY <= grouped[i].TOTALSALESQUANTITY
        /\ \A j \in 1..(i - 1) :
              grouped[j].TOTALSALESQUANTITY < grouped[i].TOTALSALESQUANTITY

\* grouped_data['TOTALSALESQUANTITY'].max(): NaN for no rows.
MaxOf(grouped) ==
    IF Len(grouped) = 0 THEN NaN
    ELSE Float(grouped[ArgMax(grouped)].TOTALSALESQUANTITY, 1)

\* grouped_data['TOTALSALESQUANTITY'].idxmax(): the key of the first largest sum.
IdxMax(grouped) == grouped[ArgMax(grouped)].key

\* The integer nearest to num / den, a tie going to the even one: the digits of
\* f"{x:,.0f}", and of f"{x:.3f}" for x given in thousandths.
RoundHalfEven(num, den) ==
    LET q == num \div den
        r == num % den
    IN  IF 2 * r < den THEN q
        ELSE IF 2 * r > den THEN q + 1
        ELSE IF q % 2 = 0 THEN q ELSE q + 1

Fmt0(x) == RoundHalfEven(x.num, x.den)

\* str.title() of the two options.
TitleCase(s) ==
    CASE s = "BRAND" -> "Brand"
      [] s = "STATE" -> "State"

\* f"Top {group_by.title()}"
TopLabel(group_by) ==
    CASE TitleCase(group_by) = "Brand" -> "Top Brand"
      [] TitleCase(group_by) = "State" -> "Top State"

\* The options of the selectbox, and the index selected at first.
Options == <<"BRAND", "STATE">>

DefaultIndex == 0

\* A plausible slip: the else branch keeps the title of the branch it was
\* copied from.
ChartTitleAlwaysBrand(group_by) == "Total Sales Quantity by Brand"

ChartTitle(group_by) ==
    IF group_by = "BRAND" THEN "Total Sales Quantity by Brand"
    ELSE "Total Sales Quantity by State"

Card(label, value, delta) == [label |-> label, value |-> value, delta |-> delta]

\* The three st.metric cards of py_dashboard.
Cards(df, group_by, grouped) ==
    LET total_sales == TotalSales(df)
        avg_sales == MeanSales(df)
    IN  << Card("Total Sales Quantity", total_sales, <<>>),
           IF group_by = "BRAND"
           THEN Card("Average Sales per Brand", Fmt0(avg_sales),
                     <<RoundHalfEven(avg_sales.num * 100000, avg_sales.den * total_sales),
                       "% of total">>)
           ELSE Card("Average Sales per State", Fmt0(avg_sales),
                     <<Cardinality({df.data[i]["STATE"] : i \in DOMAIN df.data}),
                       " state(s)">>),
           Card(TopLabel(group_by), Fmt0(MaxOf(grouped)), <<IdxMax(grouped)>>) >>

(***************************************************************************)
(* The notebook: its statements in notebook order.  A SQL cell issues its  *)
(* statements one by one; a Python cell is one statement.  kinds lists the *)
(* kinds of SQL statement a statement sends to the warehouse (a ->> chain  *)
(* sends each of its parts).                                               *)
(***************************************************************************)
S(cell, lang, op, kinds) == [cell |-> cell, lang |-> lang, op |-> op, kinds |-> kinds]

\* A plausible slip: sql_step5 creates the view again instead of listing it.
ProgramCreatingTwice ==
    << S("sql_step3", "sql", "use", <<"USE DATABASE">>),
       S("sql_step3", "sql", "use", <<"USE SCHEMA">>),
       S("sql_step3", "sql", "show", <<"SHOW VIEWS">>),
       S("sql_step4", "sql", "use", <<"USE ROLE">>),
       S("sql_step4", "sql", "create", <<"CREATE OR REPLACE SEMANTIC VIEW">>),
       S("sql_step5", "sql", "create", <<"CREATE OR REPLACE SEMANTIC VIEW">>),
       S("sql_step6", "sql", "desc", <<"DESC SEMANTIC VIEW", "SELECT FROM $1">>),
       S("sql_step7", "sql", "link", <<"SELECT">>),
       S("py_link", "python", "py_link", <<>>),
       S("sql_step8", "sql", "step8", <<"SELECT FROM SEMANTIC_VIEW">>),
       S("cell1", "sql", "cell1", <<"SELECT FROM SEMANTIC_VIEW">>),
       S("df", "python", "df", <<>>),
       S("py_visualization", "python", "app1", <<>>),
       S("py_dashboard", "python", "app2", <<>>) >>

\* A plausible slip: sql_step3 lists the tables instead of the views.
ProgramShowingTables ==
    << S("sql_step3", "sql", "use", <<"USE DATABASE">>),
       S("sql_step3", "sql", "use", <<"USE SCHEMA">>),
       S("sql_step3", "sql", "show", <<"SHOW TABLES">>),
       S("sql_step4", "sql", "use", <<"USE ROLE">>),
       S("sql_step4", "sql", "create", <<"CREATE OR REPLACE SEMANTIC VIEW">>),
       S("sql_step5", "sql", "show", <<"SHOW SEMANTIC VIEWS">>),
       S("sql_step6", "sql", "desc", <<"DESC SEMANTIC VIEW", "SELECT FROM $1">>),
       S("sql_step7", "sql", "link", <<"SELECT">>),
       S("py_link", "python", "py_link", <<>>),
       S("sql_step8", "sql", "step8", <<"SELECT FROM SEMANTIC_VIEW">>),
       S("cell1", "sql", "cell1", <<"SELECT FROM SEMANTIC_VIEW">>),
       S("df", "python", "df", <<>>),
       S("py_visualization", "python", "app1", <<>>),
       S("py_dashboard", "python", "app2", <<>>) >>

Program ==
    << S("sql_step3", "sql", "use", <<"USE DATABASE">>),
       S("sql_step3", "sql", "use", <<"USE SCHEMA">>),
       S("sql_step3", "sql", "show", <<"SHOW VIEWS">>),
       S("sql_step4", "sql", "use", <<"USE ROLE">>),
       S("sql_step4", "sql", "create", <<"CREATE OR REPLACE SEMANTIC VIEW">>),
       S("sql_step5", "sql", "show", <<"SHOW SEMANTIC VIEWS">>),
       S("sql_step6", "sql", "desc", <<"DESC SEMANTIC VIEW", "SELECT FROM $1">>),
       S("sql_step7", "sql", "link", <<"SELECT">>),
       S("py_link", "python", "py_link", <<>>),
       S("sql_step8", "sql", "step8", <<"SELECT FROM SEMANTIC_VIEW">>),
       S("cell1", "sql", "cell1", <<"SELECT FROM SEMANTIC_VIEW">>),
       S("df", "python", "df", <<>>),
       S("py_visualization", "python", "app1", <<>>),
       S("py_dashboard", "python", "app2", <<>>) >>

NStmts == Len(Program)

\* The position of the statement that does op.
StmtOf(op) == CHOOSE i \in DOMAIN Program : Program[i].op = op

\* The cells in notebook order, and a cell's place in it.
CellOrder ==
    <<"sql_step3", "sql_step4", "sql_step5", "sql_step6", "sql_step7", "py_link",
      "sql_step8", "cell1", "df", "py_visualization", "py_dashboard">>

CellIndex(cell) == CHOOSE k \in DOMAIN CellOrder : CellOrder[k] = cell

\* A plausible slip: the cell1 query is submitted without waiting for it.
BlockingExceptCell1(i) == Program[i].op # "cell1"

\* The call of statement i returns only when it has completed: every SQL cell
\* is run to completion, and the Python cells call to_pandas() and st.* directly.
Blocking(i) == TRUE

\* A plausible slip: a failure of USE ROLE is passed over.
HandlesUseRole(i) == Program[i].kinds = <<"USE ROLE">>

\* Statement i's failure is caught and the run goes on: no cell does that.
Handles(i) == FALSE

\* The row sql_step7 returns: the link, as the parts the statement concatenates.
LinkResult ==
    [columns |-> <<"RESULT">>,
     rows |-> << [RESULT |-> <<"https://app.snowflake.com/", "CURRENT_ORGANIZATION_NAME()", "/",
                               "CURRENT_ACCOUNT_NAME()",
                               "/#/studio/analyst/databases/<MDT3_DEFAULT_DATABASE##>/schemas/DEFAULT_SCHEMA/semanticView/TPCDS_SEMANTIC_VIEW_SM/edit">>] >>]

VARIABLES
    sales,      \* the warehouse's sales data
    view,       \* the catalog's entry for TPCDS_SEMANTIC_VIEW_SM
    creates,    \* how often this run has created the view
    pc,         \* the statement the run is at; NStmts + 1 when it is through
    inflight,   \* the statements whose call is in progress
    started,    \* the statements this run has started
    issued,     \* the kinds of SQL statement sent to the warehouse
    failed,     \* the statements that have failed
    halted,     \* a failure has halted the run
    bind,       \* the results bound to the cell names sql_step7, cell1 and df
    out8,       \* the result cell sql_step8 shows
    ui,         \* the widgets of the two apps: selection and checkbox
    py,         \* the Python globals the cells assign
    out         \* what the two apps have rendered

vars ==
    <<sales, view, creates, pc, inflight, started, issued, failed, halted, bind, out8, ui, py, out>>

Unbound(val) == [bound |-> FALSE, val |-> val]

Bound(val) == [bound |-> TRUE, val |-> val]

NoOutput ==
    [rendered |-> FALSE, title |-> "", selection |-> "", subheader |-> "",
     chart |-> <<>>, cards |-> <<>>, tableShown |-> FALSE, table |-> <<>>]

NoGlobals ==
    [defined |-> {}, link |-> <<>>, group_by |-> "", grouped_data |-> <<>>,
     chart_title |-> "", total_sales |-> 0, avg_sales |-> NaN,
     top_performer |-> NaN, top_performer_name |-> <<>>]

Widgets == [sel |-> Options[DefaultIndex + 1], show |-> FALSE]

\* The notebook before its first cell runs, over the given sales data.
InitOver(contents) ==
    /\ sales \in contents
    /\ view = [exists |-> FALSE, def |-> EmptyDef]
    /\ creates = 0
    /\ pc = 1
    /\ inflight = {}
    /\ started = {}
    /\ issued = {}
    /\ failed = {}
    /\ halted = FALSE
    /\ bind = [sql_step7 |-> Unbound(NoResult), cell1 |-> Unbound(NoResult),
               df |-> Unbound(NoFrame)]
    /\ out8 = Unbound(NoResult)
    /\ ui = [app1 |-> Widgets, app2 |-> Widgets]
    /\ py = NoGlobals
    /\ out = [app1 |-> NoOutput, app2 |-> NoOutput]

Init == InitOver(SalesContents)

InitManyBrands == InitOver(SalesContentsManyBrands)

(***************************************************************************)
(* What a statement needs to succeed, and what it does when it succeeds.   *)
(***************************************************************************)
\* The statement cannot succeed in this state.
MustFail(i) ==
    LET op == Program[i].op
    IN  CASE op = "desc" -> ~view.exists
          [] op = "step8" -> ~QueryOk(view, Step8Query)
          [] op = "cell1" -> ~QueryOk(view, Cell1Query)
          [] op = "py_link" -> ~bind.sql_step7.bound \/ Len(bind.sql_step7.val.rows) = 0
          [] op = "df" -> ~bind.cell1.bound
          [] op = "app1" -> ~bind.df.bound
          [] op = "app2" ->
               ~bind.df.bound \/ Len(GroupBySum(bind.df.val, ui.app2.sel)) = 0
          [] OTHER -> FALSE

\* The statement calls the warehouse, which may fail for reasons of its own.
CanFail(i) == Program[i].lang = "sql" \/ Program[i].op \in {"py_link", "df"}

\* The globals both apps assign from the selection and df.
Grouping(g, group_by, df) ==
    [g EXCEPT !.defined = @ \cup {"group_by", "grouped_data", "chart_title"},
              !.group_by = group_by,
              !.grouped_data = GroupBySum(df, group_by),
              !.chart_title = ChartTitle(group_by)]

\* The globals py_dashboard assigns before it calls idxmax.
KpisBeforeIdxMax(g, df) ==
    [g EXCEPT !.defined = @ \cup {"total_sales", "avg_sales", "top_performer"},
              !.total_sales = TotalSales(df),
              !.avg_sales = MeanSales(df),
              !.top_performer = MaxOf(g.grouped_data)]

\* py_visualization, run with the selection and checkbox of its widgets.
RunApp1 ==
    LET df == bind.df.val
        g == Grouping(py, ui.app1.sel, df)
    IN  /\ py' = g
        /\ out' = [out EXCEPT !.app1 =
                      [rendered |-> TRUE,
                       title |-> "Sales Data Interactive Visualization",
                       selection |-> g.group_by,
                       subheader |-> g.chart_title,
                       chart |-> g.grouped_data,
                       cards |-> <<>>,
                       tableShown |-> ui.app1.show,
                       table |-> IF ui.app1.show THEN g.grouped_data ELSE <<>>]]

\* A plausible slip: py_dashboard groups only when no cell has grouped yet,
\* and otherwise takes the grouped_data and chart_title it finds.
RunApp2ReusingGrouping ==
    LET df == bind.df.val
        g0 == IF "grouped_data" \in py.defined
              THEN [py EXCEPT !.group_by = ui.app2.sel]
              ELSE Grouping(py, ui.app2.sel, df)
        g == KpisBeforeIdxMax(g0, df)
    IN  /\ py' = [g EXCEPT !.defined = @ \cup {"top_performer_name"},
                           !.top_performer_name = <<IdxMax(g.grouped_data)>>]
        /\ out' = [out EXCEPT !.app2 =
                      [rendered |-> TRUE,
                       title |-> "Sales Data Dashboard",
                       selection |-> g.group_by,
                       subheader |-> g.chart_title,
                       chart |-> g.grouped_data,
                       cards |-> Cards(df, g.group_by, g.grouped_data),
                       tableShown |-> ui.app2.show,
                       table |-> IF ui.app2.show THEN g.grouped_data ELSE <<>>]]

\* py_dashboard, run with the selection and checkbox of its widgets.
RunApp2 ==
    LET df == bind.df.val
        g == KpisBeforeIdxMax(Grouping(py, ui.app2.sel, df), df)
    IN  /\ py' = [g EXCEPT !.defined = @ \cup {"top_performer_name"},
                           !.top_performer_name = <<IdxMax(g.grouped_data)>>]
        /\ out' = [out EXCEPT !.app2 =
                      [rendered |-> TRUE,
                       title |-> "Sales Data Dashboard",
                       selection |-> g.group_by,
                       subheader |-> g.chart_title,
                       chart |-> g.grouped_data,
                       cards |-> Cards(df, g.group_by, g.grouped_data),
                       tableShown |-> ui.app2.show,
                       table |-> IF ui.app2.show THEN g.grouped_data ELSE <<>>]]

\* The effect of statement i when it succeeds.
Effect(i) ==
    LET op == Program[i].op
    IN  CASE op = "create" ->
               /\ view' = [exists |-> TRUE, def |-> SemanticViewDef]
               /\ creates' = creates + 1
               /\ UNCHANGED <<bind, out8, py, out>>
          [] op = "link" ->
               /\ bind' = [bind EXCEPT !.sql_step7 = Bound(LinkResult)]
               /\ UNCHANGED <<view, creates, out8, py, out>>
          [] op = "py_link" ->
               /\ py' = [py EXCEPT !.defined = @ \cup {"link"},
                                   !.link = bind.sql_step7.val.rows[1]["RESULT"]]
               /\ UNCHANGED <<view, creates, bind, out8, out>>
          [] op = "step8" ->
               /\ \E r \in QueryResults(view, Step8Query, sales) : out8' = Bound(r)
               /\ UNCHANGED <<view, creates, bind, py, out>>
          [] op = "cell1" ->
               /\ \E r \in QueryResults(view, Cell1Query, sales) :
                     bind' = [bind EXCEPT !.cell1 = Bound(r)]
               /\ UNCHANGED <<view, creates, out8, py, out>>
          [] op = "df" ->
               /\ bind' = [bind EXCEPT !.df = Bound(ToPandas(bind.cell1.val))]
               /\ UNCHANGED <<view, creates, out8, py, out>>
          [] op = "app1" -> RunApp1 /\ UNCHANGED <<view, creates, bind, out8>>
          [] op = "app2" -> RunApp2 /\ UNCHANGED <<view, creates, bind, out8>>
          [] OTHER -> UNCHANGED <<view, creates, bind, out8, py, out>>

(***************************************************************************)
(* The run: the statements are started in notebook order; a statement is   *)
(* started only when no call that blocks is in progress.                   *)
(***************************************************************************)
Start(i) ==
    /\ ~halted
    /\ pc = i
    /\ \A j \in inflight : ~Blocking(j)
    /\ inflight' = inflight \cup {i}
    /\ started' = started \cup {i}
    /\ issued' = issued \cup Range(Program[i].kinds)
    /\ pc' = IF Blocking(i) THEN pc ELSE pc + 1
    /\ UNCHANGED <<sales, view, creates, failed, halted, bind, out8, ui, py, out>>

Complete(i) ==
    /\ i \in inflight
    /\ ~MustFail(i)
    /\ Effect(i)
    /\ inflight' = inflight \ {i}
    /\ pc' = IF pc = i THEN i + 1 ELSE pc
    /\ UNCHANGED <<sales, started, issued, failed, halted, ui>>

\* The statement raises an error.  py_dashboard fails at idxmax when
\* grouped_data is empty, after it has assigned the globals before that line.
Fail(i) ==
    /\ i \in inflight
    /\ pc = i
    /\ MustFail(i) \/ CanFail(i)
    /\ inflight' = inflight \ {i}
    /\ failed' = failed \cup {i}
    /\ halted' = IF Handles(i) THEN halted ELSE TRUE
    /\ pc' = IF Handles(i) THEN i + 1 ELSE pc
    /\ py' = IF Program[i].op = "app2" /\ bind.df.bound
             THEN KpisBeforeIdxMax(Grouping(py, ui.app2.sel, bind.df.val), bind.df.val)
             ELSE py
    /\ UNCHANGED <<sales, view, creates, started, issued, bind, out8, ui, out>>

(***************************************************************************)
(* The user changes a widget of an app that is on screen: the widget takes *)
(* the new value and the app's cell is run again.                          *)
(***************************************************************************)
Apps == {"app1", "app2"}

Idle == inflight = {} /\ (pc = NStmts + 1 \/ halted)

Select(app, option) ==
    /\ Idle
    /\ out[app].rendered
    /\ option # ui[app].sel
    /\ ui' = [ui EXCEPT ![app].sel = option]
    /\ inflight' = {StmtOf(app)}
    /\ UNCHANGED <<sales, view, creates, pc, started, issued, failed, halted, bind, out8, py, out>>

Toggle(app) ==
    /\ Idle
    /\ out[app].rendered
    /\ ui' = [ui EXCEPT ![app].show = ~@]
    /\ inflight' = {StmtOf(app)}
    /\ UNCHANGED <<sales, view, creates, pc, started, issued, failed, halted, bind, out8, py, out>>

\* A run of the notebook from top to bottom.
NextRun ==
    \/ \E i \in DOMAIN Program : Start(i)
    \/ \E i \in DOMAIN Program : Complete(i)
    \/ \E i \in DOMAIN Program : Fail(i)

\* A run, and the user at the widgets of the apps.
Next ==
    \/ NextRun
    \/ \E app \in Apps, option \in Range(Options) : Select(app, option)
    \/ \E app \in Apps : Toggle(app)

Spec == Init /\ [][Next]_vars

\* Runs of the notebook through cell sql_step8, over sales data that may hold
\* more brands than the Step 6 query's limit.
NextThroughStep8 == pc <= StmtOf("step8") /\ NextRun

SpecStep8 == InitManyBrands /\ [][NextThroughStep8]_vars

(***************************************************************************)
(* C1.  Every declared fact, dimension and metric name resolves to exactly *)
(* one table alias of the tables clause and to exactly one underlying      *)
(* column, and no two of them share a qualified name.  The column is one   *)
(* of that same table, except for the metric STORESALES.TOTALCOST, whose   *)
(* SUM(item.cost) resolves through the fact ITEM.COST to the column        *)
(* I_WHOLESALE_COST of ITEM.                                               *)
(***************************************************************************)
\* As many qualified names as declarations.
UniqueNames(d) ==
    Cardinality({QualifiedName(x.e) : x \in Entries(d)})
        = Len(d.facts) + Len(d.dimensions) + Len(d.metrics)

ResolvesToOne(d, e) ==
    Cardinality(AliasDecls(d, e.tbl)) = 1 /\ Cardinality(Resolve(d, e)) = 1

\* As claimed: every name resolves to a column of its own table.
NamesResolveInOwnTable ==
    view.exists =>
        /\ \A x \in Entries(view.def) :
              /\ ResolvesToOne(view.def, x.e)
              /\ \A c \in Resolve(view.def, x.e) : c.tbl = x.e.tbl
        /\ UniqueNames(view.def)

NamesResolveToOneColumn ==
    view.exists =>
        /\ \A x \in Entries(view.def) :
              /\ ResolvesToOne(view.def, x.e)
              /\ \A c \in Resolve(view.def, x.e) :
                    \/ c.tbl = x.e.tbl
                    \/ /\ x.kind = "METRIC"
                       /\ QualifiedName(x.e) = <<"STORESALES", "TOTALCOST">>
                       /\ c = Col("ITEM", "I_WHOLESALE_COST")
        /\ UniqueNames(view.def)

\* The view is created, and one of its metrics refers to another table's fact.
ViewWithQualifiedMetric ==
    /\ view.exists
    /\ \E m \in Range(view.def.metrics) : \E r \in Range(m.expr) : Len(r) = 2

(***************************************************************************)
(* C2.  The relationships, read as a directed graph over the six table     *)
(* aliases, have no cycle and give a join path from STORESALES to each of  *)
(* CUSTOMER, DATE, DEMO, ITEM and STORE.                                   *)
(***************************************************************************)
RelationshipsFormJoinPaths ==
    view.exists =>
        /\ Aliases(view.def) = {"CUSTOMER", "DATE", "DEMO", "ITEM", "STORE", "STORESALES"}
        /\ \A e \in Edges(view.def) : e[1] \in Aliases(view.def) /\ e[2] \in Aliases(view.def)
        /\ \A a \in Aliases(view.def) : a \notin JoinReach(view.def, a)
        /\ Aliases(view.def) \ {FactTable} \subseteq JoinReach(view.def, FactTable)

\* The view is created with relationships out of the sales fact table.
ViewWithRelationships ==
    view.exists /\ JoinReach(view.def, FactTable) # {}

(***************************************************************************)
(* C3.  Every relationship is a many-to-one link from the sales fact table *)
(* to a dimension table: its referencing table is STORESALES, its          *)
(* referenced column is the primary key of the referenced table, and its   *)
(* referencing column is not the primary key of STORESALES.                *)
(***************************************************************************)
RelationshipsAreManyToOne ==
    view.exists =>
        \A r \in Range(view.def.relationships) :
            /\ r.tbl = FactTable
            /\ r.refcols = PrimaryKey(view.def, r.ref)
            /\ r.cols # PrimaryKey(view.def, FactTable)

(***************************************************************************)
(* C4.  Every declared metric is a SUM of one argument.  For TOTALCOST and *)
(* TOTALSALESQUANTITY the argument is a declared fact (ITEM.COST by name,  *)
(* STORESALES.SALES_QUANTITY by its column SS_QUANTITY); for               *)
(* TOTALSALESPRICE it is SS_SALES_PRICE, a column of STORESALES for which  *)
(* no fact is declared.                                                    *)
(***************************************************************************)
\* The metric's argument is a declared fact, named or given by its column.
ArgIsFact(d, m) ==
    /\ Resolve(d, m) # {}
    /\ Resolve(d, m) \subseteq UNION {Resolve(d, f) : f \in Range(d.facts)}

IsAggregate(m) == m.agg # "" /\ Len(m.expr) = 1

\* As claimed: every metric aggregates a declared fact.
MetricsAggregateFacts ==
    view.exists =>
        \A m \in Range(view.def.metrics) : IsAggregate(m) /\ ArgIsFact(view.def, m)

MetricsAggregateFactsOrSalesPrice ==
    view.exists =>
        \A m \in Range(view.def.metrics) :
            /\ IsAggregate(m)
            /\ m.agg = "SUM"
            /\ \/ ArgIsFact(view.def, m)
               \/ /\ QualifiedName(m) = <<"STORESALES", "TOTALSALESPRICE">>
                  /\ Resolve(view.def, m) = {Col("STORESALES", "SS_SALES_PRICE")}

\* The view is created with its three metrics.
ViewWithMetrics ==
    /\ view.exists
    /\ {m.name : m \in Range(view.def.metrics)}
          = {"TOTALCOST", "TOTALSALESPRICE", "TOTALSALESQUANTITY"}


(***************************************************************************)
(* C5.  In a run the view is created once, by the CREATE OR REPLACE        *)
(* statement of sql_step4: never a second time, and exactly once in every  *)
(* run that has passed sql_step4.  The statements after it only read the   *)
(* view: once created, its definition is the same in every later state.    *)
(***************************************************************************)
CreatedOnceThenReadOnly ==
    /\ [](/\ creates <= 1
          /\ view.exists <=> creates = 1
          /\ pc > StmtOf("create") => creates = 1)
    /\ [][creates = 1 => view' = view /\ creates' = 1]_vars

\* The run is through: the view was created and the later statements read it.
RunThroughAfterCreate ==
    /\ pc = NStmts + 1
    /\ creates = 1
    /\ {StmtOf("desc"), StmtOf("step8"), StmtOf("cell1")} \subseteq started

(***************************************************************************)
(* C6.  If a statement fails, the run halts at it: no statement after it   *)
(* is started, and no result is bound to the name of its cell or of a      *)
(* later cell (sql_step7, cell1, df).                                      *)
(***************************************************************************)
BoundNames == {"sql_step7", "cell1", "df"}

FailureHaltsRun ==
    \A f \in failed :
        /\ halted
        /\ pc = f
        /\ \A i \in started : i <= f
        /\ \A n \in BoundNames :
              CellIndex(n) >= CellIndex(Program[f].cell) => ~bind[n].bound

\* A SQL statement before sql_step7 has failed.
SqlStatementFailed ==
    \E f \in failed : Program[f].lang = "sql" /\ f < StmtOf("link")

(***************************************************************************)
(* C7.  The statements run one after another in notebook order: at most    *)
(* one call is in progress at any moment, a call starts only when no call  *)
(* is in progress, and the statement started next is the one after the     *)
(* statements started so far.                                              *)
(***************************************************************************)
OneCallAtATime ==
    /\ [](Cardinality(inflight) <= 1)
    /\ [][/\ inflight' \ inflight # {} => inflight = {}
          /\ started' \ started \subseteq {Cardinality(started) + 1}]_vars

\* A call is in progress after earlier calls have completed.
CallInProgressAfterOthers ==
    Cardinality(inflight) = 1 /\ Cardinality(started) > 1

(***************************************************************************)
(* C8.  Every SQL statement the notebook issues is one of USE DATABASE,    *)
(* USE SCHEMA, SHOW VIEWS, CREATE OR REPLACE SEMANTIC VIEW, SHOW SEMANTIC  *)
(* VIEWS, DESC SEMANTIC VIEW, SELECT ... FROM SEMANTIC_VIEW(...), or one   *)
(* of the three the notebook issues besides: USE ROLE (sql_step4), the     *)
(* SELECT ... FROM $1 that sql_step6 pipes the DESC into, and the SELECT   *)
(* without FROM of sql_step7.                                              *)
(***************************************************************************)
ClaimedKinds ==
    {"USE DATABASE", "USE SCHEMA", "SHOW VIEWS", "CREATE OR REPLACE SEMANTIC VIEW",
     "SHOW SEMANTIC VIEWS", "DESC SEMANTIC VIEW", "SELECT FROM SEMANTIC_VIEW"}

\* As claimed: only the seven kinds are issued.
OnlyClaimedKindsIssued == issued \subseteq ClaimedKinds

OnlyListedKindsIssued ==
    issued \subseteq ClaimedKinds \cup {"USE ROLE", "SELECT FROM $1", "SELECT"}

\* The run is through and has issued every kind of statement it holds.
AllKindsIssued ==
    pc = NStmts + 1 /\ issued = ClaimedKinds \cup {"USE ROLE", "SELECT FROM $1", "SELECT"}

(***************************************************************************)
(* C9.  The Step 6 query returns the top-selling brands of December 2002   *)
(* in TX in the category Books: at most 10 rows, each with Year = 2002,    *)
(* Month = 12, State = 'TX' and Category = 'Books', in non-increasing      *)
(* order of TotalSalesQuantity, and no brand left out that has such sales  *)
(* sold more than a brand returned.                                        *)
(***************************************************************************)
\* The sales rows the Step 6 query is about.
BookSalesInTX ==
    {r \in sales : r.D_YEAR = 2002 /\ r.D_MOY = 12 /\ r.S_STATE = "TX"
                      /\ r.I_CATEGORY = "Books"}

BrandTotal(b) == SumOf({r \in BookSalesInTX : r.I_BRAND = b}, "SS_QUANTITY")

\* The brands with such sales that the result leaves out.
LeftOut == {r.I_BRAND : r \in BookSalesInTX} \ {x["BRAND"] : x \in Range(out8.val.rows)}

Step8ReturnsTopBrands ==
    out8.bound =>
        LET rows == out8.val.rows
        IN  /\ Len(rows) <= 10
            /\ \A i \in DOMAIN rows :
                  /\ rows[i]["YEAR"] = 2002
                  /\ rows[i]["MONTH"] = 12
                  /\ rows[i]["STATE"] = "TX"
                  /\ rows[i]["CATEGORY"] = "Books"
                  /\ rows[i]["TOTALSALESQUANTITY"] = BrandTotal(rows[i]["BRAND"])
            /\ \A i, j \in DOMAIN rows :
                  i < j => rows[i]["TOTALSALESQUANTITY"] >= rows[j]["TOTALSALESQUANTITY"]
            /\ \A b \in LeftOut : \A i \in DOMAIN rows :
                  BrandTotal(b) <= rows[i]["TOTALSALESQUANTITY"]

\* The limit has cut the result: ten rows returned, a brand left out.
Step8LimitCuts ==
    out8.bound /\ Len(out8.val.rows) = 10 /\ LeftOut # {}

(***************************************************************************)
(* C10.  In App 2, for a non-empty df, the card "Average Sales per Brand"  *)
(* shows the total sales quantity divided by the number of distinct        *)
(* brands, and the card "Average Sales per State" the total divided by the *)
(* number of distinct states.                                              *)
(***************************************************************************)
Distinct(df, column) == {df.data[i][column] : i \in DOMAIN df.data}

AverageCardIsPerGroupAverage ==
    out.app2.rendered /\ Len(bind.df.val.data) > 0 =>
        LET df == bind.df.val
            card == out.app2.cards[2]
        IN  /\ out.app2.selection = "BRAND" =>
                  /\ card.label = "Average Sales per Brand"
                  /\ card.value = Fmt0(Float(TotalSales(df), Cardinality(Distinct(df, "BRAND"))))
            /\ out.app2.selection = "STATE" =>
                  /\ card.label = "Average Sales per State"
                  /\ card.value = Fmt0(Float(TotalSales(df), Cardinality(Distinct(df, "STATE"))))

(***************************************************************************)
(* C11.  The two apps are independent.  What App 2 shows (title, cards,    *)
(* chart, table) is determined by df and by App 2's own selection and      *)
(* checkbox alone: it is the same whatever App 1 selected, rendered or     *)
(* left in the globals before.  And no step changes df once it is bound.   *)
(***************************************************************************)
\* What App 2 shows for df, its selection and its checkbox.
App2Rendering(df, sel, show) ==
    [rendered |-> TRUE,
     title |-> "Sales Data Dashboard",
     selection |-> sel,
     subheader |-> ChartTitle(sel),
     chart |-> GroupBySum(df, sel),
     cards |-> Cards(df, sel, GroupBySum(df, sel)),
     tableShown |-> show,
     table |-> IF show THEN GroupBySum(df, sel) ELSE <<>>]

ShowsCurrentSelection ==
    \A app \in Apps :
        /\ ui[app].sel \in {"BRAND", "STATE"}
        /\ ~out[app].rendered => ui[app].sel = "BRAND"
        /\ out[app].rendered /\ StmtOf(app) \notin inflight =>
              LET sel == ui[app].sel
                  brand == sel = "BRAND"
              IN  /\ out[app].selection = sel
                  /\ {out[app].chart[j].key : j \in DOMAIN out[app].chart}
                        \subseteq Distinct(bind.df.val, sel)
                  /\ out[app].subheader = IF brand THEN "Total Sales Quantity by Brand"
                                                    ELSE "Total Sales Quantity by State"
                  /\ app = "app2" =>
                        /\ out[app].cards[2].label = IF brand THEN "Average Sales per Brand"
                                                               ELSE "Average Sales per State"
                        /\ out[app].cards[3].label = IF brand THEN "Top Brand" ELSE "Top State"

\* Both apps have been rerun by state, App 1 is back at brand.
SelectionsChanged ==
    /\ inflight = {}
    /\ out.app1.rendered /\ out.app1.selection = "BRAND" /\ out.app1.tableShown
    /\ out.app2.rendered /\ out.app2.selection = "STATE" /\ Len(out.app2.chart) > 0
    /\ py.group_by = "BRAND"


(***************************************************************************)
(* C13.  For every df and either option, grouped_data has exactly one row  *)
(* per distinct value of the selected column of df, each row holds the sum *)
(* of TOTALSALESQUANTITY over the df rows with that value, and the sums of *)
(* grouped_data add up to total_sales, the sum over all of df.             *)
(***************************************************************************)
\* The sum of TOTALSALESQUANTITY over the rows of a sequence.
RECURSIVE QuantityOver(_)
QuantityOver(rows) ==
    IF rows = <<>> THEN 0
    ELSE Head(rows).TOTALSALESQUANTITY + QuantityOver(Tail(rows))

\* The rows of df whose column holds the value.
RowsWith(df, column, v) == SelectSeq(df.data, LAMBDA r : r[column] = v)

GroupedDataSumsDf ==
    \A app \in Apps :
        out[app].rendered =>
            LET df == bind.df.val
                sel == out[app].selection
                grouped == out[app].chart
            IN  /\ {grouped[j].key : j \in DOMAIN grouped} = Distinct(df, sel)
                /\ Len(grouped) = Cardinality(Distinct(df, sel))
                /\ \A j \in DOMAIN grouped :
                      grouped[j].TOTALSALESQUANTITY
                          = QuantityOver(RowsWith(df, sel, grouped[j].key))
                /\ QuantityOver(grouped) = QuantityOver(df.data)
                /\ app = "app2" => out[app].cards[1].value = QuantityOver(grouped)


(***************************************************************************)
(* C14.  Every name a Python cell reads (sql_step7 in py_link, cell1 in    *)
(* cell df, df in py_visualization and py_dashboard) was bound, before the *)
(* cell started, by a cell earlier in the notebook that has completed, and *)
(* holds the result of that cell's statement.                              *)
(***************************************************************************)
\* The cell names the statement reads.
ReadsOf(op) ==
    CASE op = "py_link" -> {"sql_step7"}
      [] op = "df" -> {"cell1"}
      [] op \in {"app1", "app2"} -> {"df"}
      [] OTHER -> {}

\* The statement whose result is bound to the cell name.
BinderOf(name) ==
    CASE name = "sql_step7" -> StmtOf("link")
      [] name = "cell1" -> StmtOf("cell1")
      [] name = "df" -> StmtOf("df")

\* Every statement started has found the names it reads bound by an earlier
\* statement that has completed, and the Python names hold what was bound.
NamesBoundWhenRead ==
    /\ \A i \in started : \A n \in ReadsOf(Program[i].op) :
          /\ bind[n].bound
          /\ BinderOf(n) < i
          /\ BinderOf(n) \in started \ (inflight \cup failed)
    /\ bind.sql_step7.bound => bind.sql_step7.val = LinkResult
    /\ "link" \in py.defined => py.link = LinkResult.rows[1]["RESULT"]
    /\ bind.df.bound =>
          /\ bind.df.val.columns = bind.cell1.val.columns
          /\ bind.df.val.data = bind.cell1.val.rows
    /\ \A app \in Apps : out[app].rendered => bind.df.bound

\* A step that binds cell1 binds a result of the cell1 query, and a name once
\* bound keeps what it holds.
BindsStatementResult ==
    /\ bind.cell1' # bind.cell1 =>
          /\ bind.cell1'.bound
          /\ bind.cell1'.val \in QueryResults(view, Cell1Query, sales)
    /\ \A n \in {"sql_step7", "cell1", "df"} : bind[n].bound => bind[n]' = bind[n]

=============================================================================
